---- MODULE Spec2Model ----
(***************************************************************************)
(* tuneLearn: the chord detector (ChordDetector), the music-theory tables  *)
(* it reads (NOTES, CHORD_TYPES, MusicTheory) and the part of the app      *)
(* (TuneLearnApp) that hands the held piano keys to it.                    *)
(*                                                                         *)
(* Note names are JavaScript strings and are modelled as strings: "C#" is  *)
(* a bare name, "C#4" a piano key (name followed by the octave).           *)
(* Confidences are JavaScript doubles of the form num/den with den in      *)
(* {1, 2, 3, 4, 5, 6, 10, 20}; they are modelled exactly as integers in    *)
(* units of 1/60 (Confidence(num, den)): IEEE division is correctly        *)
(* rounded, so two such doubles are equal, or ordered, exactly as the      *)
(* fractions are.                                                          *)
(***************************************************************************)
EXTENDS Integers, Sequences, FiniteSets, TLC

VARIABLES
    pressedNotes,   \* the argument of the latest (or the pending) analyzeChord call
    returned,       \* what that call returned (Null before it has run)
    currentChord,   \* ChordDetector.currentChord
    chordHistory,   \* ChordDetector.chordHistory
    activeNotes,    \* TuneLearnApp.activeNotes: a JS Set, kept in insertion order
    calls,          \* number of analyzeChord calls made so far
    firstCall,      \* argument and result of the first analyzeChord call of the run
    helperCall,     \* the call of a MusicTheory function or a detector helper whose
                    \* result `returned` holds (Null when analyzeChord is the call)
    exercise,       \* the ExerciseEngine: currentExercise, exerciseData, isActive,
                    \* attempts, sessionStats, currentLevel
    connectedDevices \* MIDIHandler.connectedDevices: a Map from port id to device

vars == <<pressedNotes, returned, currentChord, chordHistory, activeNotes, calls, firstCall,
          helperCall, exercise, connectedDevices>>

-----------------------------------------------------------------------------
(* Bounds of the model *)

\* longest list of bare note names handed to analyzeChord in Spec
MaxLen == 3
\* number of analyzeChord calls in one run of SessionSpec
MaxCalls == 3
\* number of analyzeChord calls in one run of HistorySpec
MaxHistoryCalls == 12
\* number of answers submitted in one run of ExerciseSpec
MaxAnswers == 5
\* number of MIDI input ports in MidiSpec
MaxPorts == 4
\* TheorySpec: MIDI numbers run from -MidiBelowZero to MaxMidi, octaves from -1
\* to MaxOctave, semitone counts from 0 to MaxSemitones
MidiBelowZero == 13
MaxMidi == 127
MaxOctave == 9
MaxSemitones == 24
\* MatchSpec: longest list of played intervals
MaxTones == 6

-----------------------------------------------------------------------------
(* Values *)

\* JavaScript null
Null == [isNull |-> TRUE]

\* JavaScript undefined where a string is expected: carried as the string it
\* becomes in a concatenation; no note name is that string
Undefined == "undefined"

\* array[index] of JavaScript on an array of strings: undefined outside 0..length-1
At(array, index) == IF index \in 0..(Len(array) - 1) THEN array[index + 1] ELSE Undefined

\* a JavaScript number where null may stand as well
Number(n) == [number |-> n]

\* a % b of JavaScript for b > 0: the remainder has the sign of a
Remainder(a, b) == IF a >= 0 THEN a % b ELSE -((-a) % b)

\* string + number of JavaScript
Concat(string, number) == string \o ToString(number)

\* the double num/den, in units of 1/60
Confidence(num, den) == (60 * num) \div den

\* Min returning the larger number
Larger(a, b) == IF a <= b THEN b ELSE a

\* Math.min
Min(a, b) == IF a <= b THEN a ELSE b

\* Array.prototype.includes
Includes(seq, x) == \E i \in 1..Len(seq) : seq[i] = x

\* Array.prototype.sort((a, b) => a - b) on numbers
RECURSIVE InsertNumber(_, _)
InsertNumber(sorted, x) ==
    IF sorted = <<>> THEN <<x>>
    ELSE IF x < Head(sorted) THEN <<x>> \o sorted
    ELSE <<Head(sorted)>> \o InsertNumber(Tail(sorted), x)

LeftAsGiven(seq) == seq

RECURSIVE SortNumbers(_)
SortNumbers(seq) ==
    IF seq = <<>> THEN <<>>
    ELSE InsertNumber(SortNumbers(SubSeq(seq, 1, Len(seq) - 1)), seq[Len(seq)])

\* [...new Set(array)]: first occurrences, in order
RECURSIVE UniqueNotes(_)
UniqueNotes(seq) ==
    IF seq = <<>> THEN <<>>
    ELSE LET front == UniqueNotes(SubSeq(seq, 1, Len(seq) - 1))
             last  == seq[Len(seq)]
         IN  IF Includes(front, last) THEN front ELSE Append(front, last)

-----------------------------------------------------------------------------
(* Music-theory tables *)

NOTES == <<"C", "C#", "D", "D#", "E", "F", "F#", "G", "G#", "A", "A#", "B">>

\* NOTES.indexOf(note): 0-based, -1 when absent
IndexOf(note) ==
    IF \E i \in 1..Len(NOTES) : NOTES[i] = note
    THEN (CHOOSE i \in 1..Len(NOTES) : NOTES[i] = note) - 1
    ELSE -1

ChordDef(key, name, intervals, symbol) ==
    [key |-> key, name |-> name, intervals |-> intervals, symbol |-> symbol]

\* CHORD_TYPES, each category in the order its keys are written
CHORD_TYPES ==
    [triads |-> <<
        ChordDef("", "Major", <<0, 4, 7>>, ""),
        ChordDef("m", "Minor", <<0, 3, 7>>, "m"),
        ChordDef("dim", "Diminished", <<0, 3, 6>>, "°"),
        ChordDef("aug", "Augmented", <<0, 4, 8>>, "+"),
        ChordDef("sus2", "Suspended 2nd", <<0, 2, 7>>, "sus2"),
        ChordDef("sus4", "Suspended 4th", <<0, 5, 7>>, "sus4") >>,
     sevenths |-> <<
        ChordDef("maj7", "Major 7th", <<0, 4, 7, 11>>, "maj7"),
        ChordDef("m7", "Minor 7th", <<0, 3, 7, 10>>, "m7"),
        ChordDef("7", "Dominant 7th", <<0, 4, 7, 10>>, "7"),
        ChordDef("dim7", "Diminished 7th", <<0, 3, 6, 9>>, "°7"),
        ChordDef("m7b5", "Half Diminished", <<0, 3, 6, 10>>, "ø7"),
        ChordDef("mMaj7", "Minor Major 7th", <<0, 3, 7, 11>>, "m(maj7)"),
        ChordDef("aug7", "Augmented 7th", <<0, 4, 8, 10>>, "+7") >>,
     extended |-> <<
        ChordDef("9", "Dominant 9th", <<0, 4, 7, 10, 14>>, "9"),
        ChordDef("maj9", "Major 9th", <<0, 4, 7, 11, 14>>, "maj9"),
        ChordDef("m9", "Minor 9th", <<0, 3, 7, 10, 14>>, "m9"),
        ChordDef("11", "Dominant 11th", <<0, 4, 7, 10, 14, 17>>, "11"),
        ChordDef("13", "Dominant 13th", <<0, 4, 7, 10, 14, 21>>, "13"),
        ChordDef("6", "Major 6th", <<0, 4, 7, 9>>, "6"),
        ChordDef("m6", "Minor 6th", <<0, 3, 7, 9>>, "m6") >>,
     sus |-> <<
        ChordDef("sus2", "Suspended 2nd", <<0, 2, 7>>, "sus2"),
        ChordDef("sus4", "Suspended 4th", <<0, 5, 7>>, "sus4"),
        ChordDef("7sus2", "7th Suspended 2nd", <<0, 2, 7, 10>>, "7sus2"),
        ChordDef("7sus4", "7th Suspended 4th", <<0, 5, 7, 10>>, "7sus4"),
        ChordDef("9sus4", "9th Suspended 4th", <<0, 5, 7, 10, 14>>, "9sus4") >>]

\* the keys of CHORD_TYPES as Object.entries yields them (none is integer-like)
CategoryKeys == <<"triads", "sevenths", "extended", "sus">>

\* The value of a property key that is a canonical array index ("7", "11"),
\* -1 for every other key.  Object.entries lists such keys first, ascending.
ArrayIndexOf(key) ==
    CASE key = "6"  -> 6
      [] key = "7"  -> 7
      [] key = "9"  -> 9
      [] key = "11" -> 11
      [] key = "13" -> 13
      [] OTHER      -> -1

IsArrayIndex(def) == ArrayIndexOf(def.key) >= 0
IsNamedKey(def) == ArrayIndexOf(def.key) < 0

RECURSIVE InsertByIndex(_, _)
InsertByIndex(sorted, def) ==
    IF sorted = <<>> THEN <<def>>
    ELSE IF ArrayIndexOf(def.key) < ArrayIndexOf(Head(sorted).key) THEN <<def>> \o sorted
    ELSE <<Head(sorted)>> \o InsertByIndex(Tail(sorted), def)

RECURSIVE SortByIndex(_)
SortByIndex(defs) ==
    IF defs = <<>> THEN <<>>
    ELSE InsertByIndex(SortByIndex(SubSeq(defs, 1, Len(defs) - 1)), defs[Len(defs)])

\* Object.entries(chords) of one category: integer-like keys in ascending
\* numeric order, then the other keys in the order they were written
ObjectEntries(defs) ==
    SortByIndex(SelectSeq(defs, IsArrayIndex)) \o SelectSeq(defs, IsNamedKey)

\* MusicTheory.getChordQuality: chordType.includes('maj') holds of maj7 (not of
\* mMaj7: includes is case-sensitive); includes('m') or includes('dim') of
\* m7, dim7, m7b5 and mMaj7
GetChordQuality(chordType, category) ==
    CASE category = "triads" /\ chordType \in {"", "sus2", "sus4"} -> "major"
      [] category = "triads" /\ chordType = "m" -> "minor"
      [] category = "triads" /\ chordType = "dim" -> "diminished"
      [] category = "triads" /\ chordType = "aug" -> "augmented"
      [] category = "sevenths" /\ chordType = "maj7" -> "major"
      [] category = "sevenths" /\ chordType \in {"m7", "dim7", "m7b5", "mMaj7"} -> "minor"
      [] category = "sevenths" /\ chordType = "7" -> "dominant"
      [] OTHER -> "extended"

\* MusicTheory.getIntervalName: intervals[semitones % 12] || 'Unknown'
GetIntervalName(semitones) ==
    LET intervals == <<"Unison", "Minor 2nd", "Major 2nd", "Minor 3rd", "Major 3rd",
                       "Perfect 4th", "Tritone", "Perfect 5th", "Minor 6th",
                       "Major 6th", "Minor 7th", "Major 7th", "Octave">>
        k == semitones % 12
    IN  IF k \in 0..12 THEN intervals[k + 1] ELSE "Unknown"

\* SCALES in the order its keys are written; the formula strings are read by
\* nothing here and are left out
ScaleDef(key, name, intervals) == [key |-> key, name |-> name, intervals |-> intervals]

SCALES ==
    << ScaleDef("major", "Major", <<0, 2, 4, 5, 7, 9, 11>>),
       ScaleDef("minor", "Natural Minor", <<0, 2, 3, 5, 7, 8, 10>>),
       ScaleDef("pentatonic", "Major Pentatonic", <<0, 2, 4, 7, 9>>),
       ScaleDef("blues", "Blues Scale", <<0, 3, 5, 6, 7, 10>>),
       ScaleDef("dorian", "Dorian", <<0, 2, 3, 5, 7, 9, 10>>),
       ScaleDef("mixolydian", "Mixolydian", <<0, 2, 4, 5, 7, 9, 10>>),
       ScaleDef("phrygian", "Phrygian", <<0, 1, 3, 5, 7, 8, 10>>),
       ScaleDef("lydian", "Lydian", <<0, 2, 4, 6, 7, 9, 11>>),
       ScaleDef("locrian", "Locrian", <<0, 1, 3, 5, 6, 8, 10>>),
       ScaleDef("harmonicMinor", "Harmonic Minor", <<0, 2, 3, 5, 7, 8, 11>>),
       ScaleDef("melodicMinor", "Melodic Minor", <<0, 2, 3, 5, 7, 9, 11>>) >>

\* SCALES[scaleType] is defined
HasScale(scaleType) == \E i \in 1..Len(SCALES) : SCALES[i].key = scaleType

\* SCALES[scaleType]
ScaleOf(scaleType) == SCALES[CHOOSE i \in 1..Len(SCALES) : SCALES[i].key = scaleType]

\* NoteToMidi without the test of noteIndex === -1
NoteToMidiUnchecked(note, octave) == Number((octave + 1) * 12 + IndexOf(note))

\* MusicTheory.noteToMidi(note, octave)
NoteToMidi(note, octave) ==
    LET noteIndex == IndexOf(note)
    IN  IF noteIndex = -1 THEN Null ELSE Number((octave + 1) * 12 + noteIndex)

\* MidiToNote with the octave counted from 0
MidiToNoteFromZero(midiNumber) ==
    LET octave == midiNumber \div 12
        noteIndex == Remainder(midiNumber, 12)
        note == At(NOTES, noteIndex)
    IN  [note |-> note, octave |-> octave,
         fullName |-> Concat(note, octave)]

\* MusicTheory.midiToNote(midiNumber): Math.floor(midiNumber / 12) - 1 is the
\* floor, midiNumber % 12 the JavaScript remainder
MidiToNote(midiNumber) ==
    LET octave == (midiNumber \div 12) - 1
        noteIndex == Remainder(midiNumber, 12)
        note == At(NOTES, noteIndex)
    IN  [note |-> note, octave |-> octave,
         fullName |-> Concat(note, octave)]

\* MIDIHandler.midiToNoteName(midiNote): notes[noteIndex] + octave
MidiToNoteName(midiNote) ==
    LET octave == (midiNote \div 12) - 1
        noteIndex == Remainder(midiNote, 12)
        note == At(NOTES, noteIndex)
    IN  Concat(note, octave)

\* ScaleNotesFrom with the interval taken downwards from the root
RECURSIVE ScaleNotesBelow(_, _)
ScaleNotesBelow(rootIndex, intervals) ==
    IF intervals = <<>> THEN <<>>
    ELSE <<At(NOTES, (rootIndex - Head(intervals) + 12) % 12)>>
         \o ScaleNotesBelow(rootIndex, Tail(intervals))

\* scale.intervals.map(interval => NOTES[(rootIndex + interval) % 12])
RECURSIVE ScaleNotesFrom(_, _)
ScaleNotesFrom(rootIndex, intervals) ==
    IF intervals = <<>> THEN <<>>
    ELSE <<At(NOTES, (rootIndex + Head(intervals)) % 12)>>
         \o ScaleNotesFrom(rootIndex, Tail(intervals))

\* MusicTheory.getScaleNotes(rootNote, scaleType)
GetScaleNotes(rootNote, scaleType) ==
    IF ~HasScale(scaleType) THEN <<>>
    ELSE LET rootIndex == IndexOf(rootNote)
         IN  IF rootIndex = -1 THEN <<>>
             ELSE ScaleNotesFrom(rootIndex, ScaleOf(scaleType).intervals)

-----------------------------------------------------------------------------
(* ChordDetector *)

\* this.settings, as the constructor sets them (updateSettings has no caller)
minNotes == 2
includeInversions == TRUE
preferSimpleChords == TRUE
maxHistoryLength == 10

MatchResult(isMatch, confidence, inversion, missingNotes, extraNotes) ==
    [isMatch |-> isMatch, confidence |-> confidence, inversion |-> inversion,
     missingNotes |-> missingNotes, extraNotes |-> extraNotes]

NoMatch == MatchResult(FALSE, 0, 0, <<>>, <<>>)

\* ArraysEqual comparing the lengths only
SameLength(a, b) == Len(a) = Len(b)

\* a.length === b.length && a.every((val, i) => val === b[i])
ArraysEqual(a, b) == Len(a) = Len(b) /\ \A i \in 1..Len(a) : a[i] = b[i]

\* chordIntervals.every(interval => playedIntervals.includes(interval))
ContainsAll(playedIntervals, chordIntervals) ==
    \A i \in 1..Len(chordIntervals) : Includes(playedIntervals, chordIntervals[i])

\* Without with the two arrays taken the other way round
WithoutSwapped(xs, ys) == LET NotInXs(y) == ~Includes(xs, y) IN SelectSeq(ys, NotInXs)

\* xs.filter(x => !ys.includes(x))
Without(xs, ys) == LET NotInYs(x) == ~Includes(ys, x) IN SelectSeq(xs, NotInYs)

\* Within that keeps the root's 0 alone
OnlyTheRoot(xs, ys) == LET IsRoot(x) == x = 0 /\ Includes(ys, x) IN SelectSeq(xs, IsRoot)

\* xs.filter(x => ys.includes(x))
Within(xs, ys) == LET InYs(x) == Includes(ys, x) IN SelectSeq(xs, InYs)

\* shift() the first interval and push it raised by an octave, `inversion` times
RECURSIVE Rotate(_, _)
Rotate(intervals, inversion) ==
    IF inversion = 0 THEN intervals
    ELSE Rotate(Append(Tail(intervals), Head(intervals) + 12), inversion - 1)

\* Mod12 that leaves the intervals as they are
Unreduced(intervals) == intervals

\* inverted.map(interval => interval % 12)
RECURSIVE Mod12(_)
Mod12(intervals) ==
    IF intervals = <<>> THEN <<>>
    ELSE <<Head(intervals) % 12>> \o Mod12(Tail(intervals))

GetInversion(intervals, inversion) == SortNumbers(Mod12(Rotate(intervals, inversion)))

\* the interval lists of the catalog: the only chordIntervals matchChordPattern
\* is ever given
CatalogIntervals ==
    UNION {{CHORD_TYPES[c][i].intervals : i \in 1..Len(CHORD_TYPES[c])} : c \in DOMAIN CHORD_TYPES}

\* GetInversion(d, k) for every catalog definition d and every inversion k the
\* loop of checkInversions asks for, computed once
InversionTable ==
    [d \in CatalogIntervals |->
        ([k \in 1..(Len(d) - 1) |-> GetInversion(d, k)] @@ <<>>)] @@ <<>>

\* CheckInversionsFrom without the limit on playedIntervals.length
RECURSIVE CheckInversionsAnyLength(_, _, _)
CheckInversionsAnyLength(playedIntervals, inversions, inversion) ==
    IF inversion > Len(inversions) THEN NoMatch
    ELSE LET invertedIntervals == inversions[inversion]
         IN  IF ArraysEqual(playedIntervals, invertedIntervals)
             THEN MatchResult(TRUE, Confidence(17, 20), inversion, <<>>, <<>>)
             ELSE IF ContainsAll(playedIntervals, invertedIntervals)
             THEN MatchResult(TRUE, Confidence(3, 4), inversion, <<>>,
                              Without(playedIntervals, invertedIntervals))
             ELSE CheckInversionsAnyLength(playedIntervals, inversions, inversion + 1)

\* the for loop of checkInversions, from `inversion` on
RECURSIVE CheckInversionsFrom(_, _, _)
CheckInversionsFrom(playedIntervals, inversions, inversion) ==
    IF inversion > Len(inversions) THEN NoMatch
    ELSE LET invertedIntervals == inversions[inversion]
         IN  IF ArraysEqual(playedIntervals, invertedIntervals)
             THEN MatchResult(TRUE, Confidence(17, 20), inversion, <<>>, <<>>)
             ELSE IF /\ ContainsAll(playedIntervals, invertedIntervals)
                     /\ Len(playedIntervals) <= Len(invertedIntervals) + 2
             THEN MatchResult(TRUE, Confidence(3, 4), inversion, <<>>,
                              Without(playedIntervals, invertedIntervals))
             ELSE CheckInversionsFrom(playedIntervals, inversions, inversion + 1)

CheckInversions(playedIntervals, chordIntervals) ==
    CheckInversionsFrom(playedIntervals, InversionTable[chordIntervals], 1)

MatchChordPattern(playedIntervals, chordIntervals) ==
    IF ArraysEqual(playedIntervals, chordIntervals)
    THEN MatchResult(TRUE, Confidence(1, 1), 0, <<>>, <<>>)
    ELSE IF ContainsAll(playedIntervals, chordIntervals)
    THEN MatchResult(TRUE, Confidence(9, 10), 0, <<>>,
                     Without(playedIntervals, chordIntervals))
    ELSE LET inversionMatch == IF includeInversions
                               THEN CheckInversions(playedIntervals, chordIntervals)
                               ELSE NoMatch
             matchedNotes == Within(chordIntervals, playedIntervals)
         IN  IF inversionMatch.isMatch THEN inversionMatch
             ELSE IF Len(matchedNotes) >= Min(2, Len(chordIntervals) - 1)
             THEN MatchResult(TRUE, Confidence(Len(matchedNotes), Len(chordIntervals)), 0,
                              Without(chordIntervals, playedIntervals),
                              Without(playedIntervals, chordIntervals))
             ELSE NoMatch

\* notes.map(note => (NOTES.indexOf(note) - rootIndex + 12) % 12).sort((a, b) => a - b)
\* (the dividend is never negative: rootIndex and noteIndex are in -1..11)
\* OffsetsFrom with the subtraction the other way round
RECURSIVE OffsetsFromReversed(_, _)
OffsetsFromReversed(notes, rootIndex) ==
    IF notes = <<>> THEN <<>>
    ELSE <<(rootIndex - IndexOf(Head(notes)) + 12) % 12>>
         \o OffsetsFromReversed(Tail(notes), rootIndex)

RECURSIVE OffsetsFrom(_, _)
OffsetsFrom(notes, rootIndex) ==
    IF notes = <<>> THEN <<>>
    ELSE <<(IndexOf(Head(notes)) - rootIndex + 12) % 12>> \o OffsetsFrom(Tail(notes), rootIndex)

IntervalsFrom(notes, rootIndex) == SortNumbers(OffsetsFrom(notes, rootIndex))

\* for (const [category, chords] of Object.entries(CHORD_TYPES))
\*     for (const [chordType, chordDef] of Object.entries(chords))
\* as one list, in the order the two loops visit the definitions
RECURSIVE EntriesFrom(_)
EntriesFrom(c) ==
    IF c > Len(CategoryKeys) THEN <<>>
    ELSE LET category == CategoryKeys[c]
             WithCategory(def) == [category |-> category, chordType |-> def.key, chordDef |-> def]
             RECURSIVE Tagged(_)
             Tagged(defs) == IF defs = <<>> THEN <<>>
                             ELSE <<WithCategory(Head(defs))>> \o Tagged(Tail(defs))
         IN  Tagged(ObjectEntries(CHORD_TYPES[category])) \o EntriesFrom(c + 1)

CatalogEntries == EntriesFrom(1)

\* the chord description findChordsWithRoot pushes for a matching definition
ChordResult(notes, rootNote, intervals, entry, match) ==
    [root |-> rootNote,
     type |-> entry.chordType,
     category |-> entry.category,
     symbol |-> entry.chordDef.symbol,
     name |-> rootNote \o entry.chordDef.symbol,
     fullName |-> rootNote \o " " \o entry.chordDef.name,
     notes |-> notes,
     intervals |-> intervals,
     quality |-> GetChordQuality(entry.chordType, entry.category),
     confidence |-> match.confidence,
     inversion |-> match.inversion,
     missingNotes |-> match.missingNotes,
     extraNotes |-> match.extraNotes]

\* the interval lists a root gives for bare names without repetition: ascending
\* from the root's own 0
PlayedIntervals ==
    {p \in [1..1 -> {0}] \cup UNION {[1..k -> 0..11] : k \in 2..MaxLen} :
        p[1] = 0 /\ \A i \in 1..(Len(p) - 1) : p[i] < p[i + 1]}

\* MatchChordPattern(p, chordDef.intervals) for every such list p and every
\* catalog definition, computed once
MatchTable ==
    [p \in PlayedIntervals |->
        ([i \in 1..Len(CatalogEntries) |->
            MatchChordPattern(p, CatalogEntries[i].chordDef.intervals)] @@ <<>>)] @@ <<>>

\* this.matchChordPattern(intervals, chordDef.intervals) for the i-th definition
MatchAgainst(intervals, i) ==
    IF intervals \in DOMAIN MatchTable THEN MatchTable[intervals][i]
    ELSE MatchChordPattern(intervals, CatalogEntries[i].chordDef.intervals)

RECURSIVE MatchesFrom(_, _, _, _)
MatchesFrom(notes, rootNote, intervals, i) ==
    IF i > Len(CatalogEntries) THEN <<>>
    ELSE LET entry == CatalogEntries[i]
             match == MatchAgainst(intervals, i)
         IN  (IF match.isMatch
              THEN <<ChordResult(notes, rootNote, intervals, entry, match)>>
              ELSE <<>>)
             \o MatchesFrom(notes, rootNote, intervals, i + 1)

FindChordsWithRoot(notes, rootNote) ==
    LET rootIndex == IndexOf(rootNote)
    IN  IF rootIndex = -1 THEN <<>>
        ELSE MatchesFrom(notes, rootNote, IntervalsFrom(notes, rootIndex), 1)

\* CategoryOrder with sus and sevenths swapped
CategoryOrderSusFirst(category) ==
    CASE category = "triads" -> 0
      [] category = "sus" -> 1
      [] category = "sevenths" -> 2
      [] category = "extended" -> 3

\* categoryOrder of compareChords
CategoryOrder(category) ==
    CASE category = "triads" -> 0
      [] category = "sevenths" -> 1
      [] category = "sus" -> 2
      [] category = "extended" -> 3

\* compareChords(a, b): negative when a sorts before b
CompareChords(a, b) ==
    IF a.confidence # b.confidence THEN b.confidence - a.confidence
    ELSE IF a.inversion # b.inversion THEN a.inversion - b.inversion
    ELSE IF preferSimpleChords /\ CategoryOrder(a.category) # CategoryOrder(b.category)
    THEN CategoryOrder(a.category) - CategoryOrder(b.category)
    ELSE IF Len(a.extraNotes) # Len(b.extraNotes)
    THEN Len(a.extraNotes) - Len(b.extraNotes)
    ELSE Len(a.missingNotes) - Len(b.missingNotes)

\* results.sort(compare)[0].  Array.prototype.sort is stable (ECMAScript 2019;
\* the sources use ?. of ECMAScript 2020), so the first element after the sort
\* is the earliest element of results that no other element sorts before: the
\* head of a merge sort, in which a later element displaces an earlier one
\* only when it compares strictly before it.
RECURSIVE FirstAfterSortOf(_, _, _)
FirstAfterSortOf(results, lo, hi) ==
    IF lo = hi THEN results[lo]
    ELSE LET mid == (lo + hi) \div 2
             left == FirstAfterSortOf(results, lo, mid)
             right == FirstAfterSortOf(results, mid + 1, hi)
         IN  IF CompareChords(right, left) < 0 THEN right ELSE left

\* FirstAfterSort with ties going to the later element
RECURSIVE LastOfBest(_, _, _)
LastOfBest(results, lo, hi) ==
    IF lo = hi THEN results[lo]
    ELSE LET mid == (lo + hi) \div 2
             left == LastOfBest(results, lo, mid)
             right == LastOfBest(results, mid + 1, hi)
         IN  IF CompareChords(right, left) <= 0 THEN right ELSE left

FirstAfterSortTiesLast(results) == LastOfBest(results, 1, Len(results))

FirstAfterSort(results) == FirstAfterSortOf(results, 1, Len(results))

\* intervals.map(interval => MusicTheory.getIntervalName(interval))
RECURSIVE IntervalNames(_)
IntervalNames(intervals) ==
    IF intervals = <<>> THEN <<>>
    ELSE <<GetIntervalName(Head(intervals))>> \o IntervalNames(Tail(intervals))

AnalyzeIntervalStructure(intervals) ==
    LET hasThird == Includes(intervals, 3) \/ Includes(intervals, 4)
        hasSeventh == Includes(intervals, 10) \/ Includes(intervals, 11)
        hasNinth == Includes(intervals, 2) \/ Includes(intervals, 14)
        hasEleventh == Includes(intervals, 5) \/ Includes(intervals, 17)
        hasThirteenth == Includes(intervals, 9) \/ Includes(intervals, 21)
    IN  [hasThird |-> hasThird,
         hasFifth |-> Includes(intervals, 7),
         hasSeventh |-> hasSeventh,
         hasNinth |-> hasNinth,
         hasEleventh |-> hasEleventh,
         hasThirteenth |-> hasThirteenth,
         intervalNames |-> IntervalNames(intervals),
         quality |-> IF hasThird
                     THEN (IF Includes(intervals, 4) THEN "major" ELSE "minor")
                     ELSE "suspended",
         extensions |-> (IF hasSeventh THEN <<"7th">> ELSE <<>>)
                        \o (IF hasNinth THEN <<"9th">> ELSE <<>>)
                        \o (IF hasEleventh THEN <<"11th">> ELSE <<>>)
                        \o (IF hasThirteenth THEN <<"13th">> ELSE <<>>)]

AnalyzeUnknownChord(notes) ==
    IF Len(notes) < 2 THEN Null
    ELSE LET rootNote == notes[1]
             intervals == IntervalsFrom(notes, IndexOf(rootNote))
         IN  [root |-> rootNote,
              type |-> "unknown",
              category |-> "unknown",
              symbol |-> "?",
              name |-> rootNote \o "?",
              fullName |-> rootNote \o " Unknown Chord",
              notes |-> notes,
              intervals |-> intervals,
              quality |-> "unknown",
              confidence |-> Confidence(1, 2),
              inversion |-> 0,
              missingNotes |-> <<>>,
              extraNotes |-> <<>>,
              analysis |-> AnalyzeIntervalStructure(intervals)]

\* the candidates detectChordFromNotes collects: every note as root, in order
RECURSIVE ResultsFrom(_, _)
ResultsFrom(notes, i) ==
    IF i > Len(notes) THEN <<>>
    ELSE FindChordsWithRoot(notes, notes[i]) \o ResultsFrom(notes, i + 1)

CollectResults(notes) == ResultsFrom(notes, 1)

DetectChordFromNotes(notes) ==
    LET results == CollectResults(notes)
    IN  IF Len(results) = 0 THEN AnalyzeUnknownChord(notes)
        ELSE FirstAfterSort(results)

\* AddToHistory without the shift() that keeps the history within its limit
AddToHistoryUnbounded(history, chord) ==
    IF Len(history) > 0 /\ history[Len(history)].name = chord.name THEN history
    ELSE Append(history, chord)

\* AddToHistory without the test for the chord the history ends with
AddToHistoryRepeats(history, chord) ==
    LET pushed == Append(history, chord)
    IN  IF Len(pushed) > maxHistoryLength THEN Tail(pushed) ELSE pushed

\* addToHistory(chord); the entry's timestamp (Date.now()) is read by nothing
\* and is left out
AddToHistory(history, chord) ==
    IF Len(history) > 0 /\ history[Len(history)].name = chord.name THEN history
    ELSE LET pushed == Append(history, chord)
         IN  IF Len(pushed) > maxHistoryLength THEN Tail(pushed) ELSE pushed

\* Rejected without `this.currentChord = null`
RejectedKeepsCurrent ==
    [returned |-> Null, currentChord |-> currentChord, chordHistory |-> chordHistory]

\* the detector after a call that ends in `return null`
Rejected == [returned |-> Null, currentChord |-> Null, chordHistory |-> chordHistory]

\* AnalyzeChord reporting nothing for the chord the history already ends with
AnalyzeChordSkipsRepeat(notes) ==
    IF Len(notes) < minNotes THEN Rejected
    ELSE LET uniqueNotes == UniqueNotes(notes)
         IN  IF Len(uniqueNotes) < minNotes THEN Rejected
             ELSE LET chord == DetectChordFromNotes(uniqueNotes)
                  IN  IF /\ Len(chordHistory) > 0
                         /\ chordHistory[Len(chordHistory)].name = chord.name
                      THEN Rejected
                      ELSE [returned |-> chord, currentChord |-> chord,
                            chordHistory |-> AddToHistory(chordHistory, chord)]

\* AnalyzeChord with `<=` for `<` in the test of uniqueNotes.length
AnalyzeChordNeedsThree(notes) ==
    IF Len(notes) < minNotes THEN Rejected
    ELSE LET uniqueNotes == UniqueNotes(notes)
         IN  IF Len(uniqueNotes) <= minNotes THEN Rejected
             ELSE LET chord == DetectChordFromNotes(uniqueNotes)
                  IN  [returned |-> chord, currentChord |-> chord,
                       chordHistory |-> AddToHistory(chordHistory, chord)]

\* analyzeChord(notes), run on the detector's present state: what it returns
\* and the currentChord and chordHistory it leaves
AnalyzeChord(notes) ==
    IF Len(notes) < minNotes THEN Rejected
    ELSE LET uniqueNotes == UniqueNotes(notes)
         IN  IF Len(uniqueNotes) < minNotes THEN Rejected
             ELSE LET chord == DetectChordFromNotes(uniqueNotes)
                  IN  IF chord # Null
                      THEN [returned |-> chord, currentChord |-> chord,
                            chordHistory |-> AddToHistory(chordHistory, chord)]
                      ELSE Rejected

-----------------------------------------------------------------------------
(* ExerciseEngine *)

\* this.maxAttempts
maxAttempts == 3

\* null in a field that otherwise holds a string
None == "null"

\* a JavaScript boolean returned by a call
Boolean(b) == [boolean |-> b]

\* the keys of exerciseTypes, in the order initializeExerciseTypes sets them
ExerciseTypes ==
    <<"note-identification", "interval-identification", "scale-practice",
      "chord-identification", "chord-building">>

\* curriculum[level].exercises for the levels 1 to 12
Curriculum ==
    << <<"note-identification">>,
       <<"note-identification">>,
       <<"note-identification">>,
       <<"interval-identification">>,
       <<"interval-identification">>,
       <<"scale-practice">>,
       <<"scale-practice">>,
       <<"chord-identification">>,
       <<"chord-building">>,
       <<"chord-identification", "interval-identification">>,
       <<"chord-building">>,
       <<"note-identification", "interval-identification", "scale-practice",
         "chord-identification", "chord-building">> >>

\* the engine as the constructor leaves it, at the level loadProgress() gives.
\* sessionStats.averageTime is a function of Date.now() that nothing modelled
\* here reads, and is left out; accuracy is kept as the quotient it is.
NewExerciseEngine(level) ==
    [currentExercise |-> None,
     exerciseData |-> Null,
     isActive |-> FALSE,
     attempts |-> 0,
     sessionStats |-> [exercisesCompleted |-> 0, correctAnswers |-> 0, totalAttempts |-> 0,
                       accuracy |-> [num |-> 0, den |-> 1]],
     currentLevel |-> level]

\* endExercise(); the panel it hides holds no state of the engine
EndExercise(engine) ==
    [engine EXCEPT !.isActive = FALSE, !.currentExercise = None, !.exerciseData = Null]

\* startExercise(exerciseType): the engine it leaves and what it returns.
\* `pick` is the index Math.random() selects when no type is given; the data a
\* generator makes is kept by its type alone.
StartExercise(engine, exerciseType, pick) ==
    LET ended == IF engine.isActive THEN EndExercise(engine) ELSE engine
        chosen == IF exerciseType = None
                  THEN Curriculum[engine.currentLevel][pick]
                  ELSE exerciseType
    IN  IF ~Includes(ExerciseTypes, chosen)
        THEN [engine |-> [ended EXCEPT !.currentExercise = None, !.isActive = FALSE],
              returned |-> Boolean(FALSE)]
        ELSE [engine |-> [ended EXCEPT !.currentExercise = chosen,
                                       !.exerciseData = [type |-> chosen],
                                       !.isActive = TRUE,
                                       !.attempts = 0],
              returned |-> Boolean(TRUE)]

\* handleCorrectAnswer: the message is kept by the number of attempts it names
HandleCorrectAnswer(engine) ==
    LET completed == [engine EXCEPT !.sessionStats.exercisesCompleted = @ + 1,
                                    !.sessionStats.correctAnswers = @ + 1]
        stats == completed.sessionStats
    IN  [engine |-> [completed EXCEPT !.sessionStats.accuracy =
                        [num |-> stats.correctAnswers, den |-> stats.totalAttempts]],
         returned |-> [isCorrect |-> TRUE, attempts |-> engine.attempts,
                       action |-> "proceedToNext"]]

\* handleIncorrectAnswer
HandleIncorrectAnswer(engine) ==
    [engine |-> engine,
     returned |-> [isCorrect |-> FALSE,
                   attemptsLeft |-> maxAttempts - engine.attempts,
                   action |-> IF engine.attempts >= maxAttempts
                              THEN "proceedToNext" ELSE "retry"]]

\* submitAnswer(answer); isCorrect is what exerciseConfig.validator(answer,
\* exerciseData) gives for the answer
SubmitAnswer(engine, isCorrect) ==
    IF ~engine.isActive \/ engine.currentExercise = None
    THEN [engine |-> engine, returned |-> [isCorrect |-> FALSE, action |-> "error"]]
    ELSE LET counted == [engine EXCEPT !.attempts = @ + 1,
                                       !.sessionStats.totalAttempts = @ + 1]
         IN  IF isCorrect THEN HandleCorrectAnswer(counted)
             ELSE HandleIncorrectAnswer(counted)

-----------------------------------------------------------------------------
(* MIDIHandler: the connected devices *)

\* a MIDIInput port: its id, its name and its manufacturer ("" when the
\* browser gives none)
Port(i) ==
    [id |-> "input-" \o ToString(i),
     name |-> "Keyboard " \o ToString(i),
     manufacturer |-> IF i = 1 THEN "" ELSE "Maker " \o ToString(i)]

\* connectedDevices.has(id); the Map is kept as the list of its values in
\* insertion order
Has(devices, id) == \E i \in 1..Len(devices) : devices[i].id = id

\* connectedDevices.forEach(device => device.isActive = false)
RECURSIVE AllInactive(_)
AllInactive(devices) ==
    IF devices = <<>> THEN <<>>
    ELSE <<[Head(devices) EXCEPT !.isActive = FALSE]>> \o AllInactive(Tail(devices))

\* Activated leaving the other devices as they are
RECURSIVE ActivatedBesideOthers(_, _)
ActivatedBesideOthers(devices, id) ==
    IF devices = <<>> THEN <<>>
    ELSE <<[Head(devices) EXCEPT !.isActive = (@ \/ Head(devices).id = id)]>>
         \o ActivatedBesideOthers(Tail(devices), id)

\* every device set inactive, then the device of this id set active
RECURSIVE Activated(_, _)
Activated(devices, id) ==
    IF devices = <<>> THEN <<>>
    ELSE <<[Head(devices) EXCEPT !.isActive = (Head(devices).id = id)]>>
         \o Activated(Tail(devices), id)

\* addInputDevice(port)
AddInputDevice(devices, port) ==
    IF Has(devices, port.id) THEN devices
    ELSE Append(devices,
                [id |-> port.id,
                 name |-> port.name,
                 manufacturer |-> IF port.manufacturer = "" THEN "Unknown"
                                  ELSE port.manufacturer,
                 isActive |-> FALSE])

\* removeInputDevice(port)
RemoveInputDevice(devices, port) ==
    LET Other(device) == device.id # port.id IN SelectSeq(devices, Other)

\* onStateChange(event) for a port of this type in this state; the device list
\* it then redraws holds no state of the handler
OnStateChange(devices, port, type, state) ==
    IF type = "input"
    THEN IF state = "connected" THEN AddInputDevice(devices, port)
         ELSE IF state = "disconnected" THEN RemoveInputDevice(devices, port)
         ELSE devices
    ELSE devices

\* activateDevice(deviceId): the devices it leaves and what it returns
ActivateDevice(devices, deviceId) ==
    IF Has(devices, deviceId)
    THEN [devices |-> Activated(devices, deviceId), returned |-> Boolean(TRUE)]
    ELSE [devices |-> devices, returned |-> Boolean(FALSE)]

\* deactivateAllDevices()
DeactivateAllDevices(devices) == AllInactive(devices)

\* setActiveDevice(deviceId); "" is the value of no selection
SetActiveDevice(devices, deviceId) ==
    IF deviceId # "" /\ Has(devices, deviceId) THEN Activated(devices, deviceId)
    ELSE AllInactive(devices)

-----------------------------------------------------------------------------
(* Inputs *)

\* PianoKeyboard.createKey: fullNote = `${note}${octave}`
FullNote(note, octave) == note \o ToString(octave)

\* note.replace(/\d+/, ''): the key without its octave; a bare name is unchanged
NoteClass(note) ==
    IF \E i \in 1..Len(NOTES), o \in 0..9 : FullNote(NOTES[i], o) = note
    THEN NOTES[CHOOSE i \in 1..Len(NOTES) : \E o \in 0..9 : FullNote(NOTES[i], o) = note]
    ELSE note

ListsOver(S, n) == UNION {[1..k -> S] : k \in 0..n}

Range(seq) == {seq[i] : i \in 1..Len(seq)}

\* lists of bare note names, repetitions included
BareInputs == ListsOver(Range(NOTES), MaxLen)

\* the keys held in Spec: the octave above middle C with the C below it and
\* the C above it, keys of the app's piano (startNote 'C3', endNote 'C6')
HeldKeys == {FullNote(NOTES[i], 4) : i \in 1..Len(NOTES)} \cup {FullNote("C", 3), FullNote("C", 5)}

\* Array.from(activeNotes) for the held keys: activeNotes is a Set, so a list
\* of piano keys in the order they went down, none of them twice
KeyInputs ==
    {keys \in ListsOver(HeldKeys, MaxLen) :
        \A i, j \in 1..Len(keys) : i # j => keys[i] # keys[j]}

Inputs == BareInputs \cup KeyInputs

-----------------------------------------------------------------------------
(* Spec: one analyzeChord call on a freshly constructed detector, for every input *)

Fresh ==
    /\ returned = Null
    /\ currentChord = Null
    /\ chordHistory = <<>>
    /\ activeNotes = <<>>
    /\ calls = 0
    /\ firstCall = Null
    /\ exercise = NewExerciseEngine(1)
    /\ connectedDevices = <<>>

Init == pressedNotes \in Inputs /\ Fresh /\ helperCall = Null

\* the state change of one analyzeChord(notes) call
Call(notes) ==
    \E out \in {AnalyzeChord(notes)} :
        /\ pressedNotes' = notes
        /\ returned' = out.returned
        /\ currentChord' = out.currentChord
        /\ chordHistory' = out.chordHistory
        /\ calls' = calls + 1
        /\ firstCall' = IF calls = 0 THEN [arg |-> notes, ret |-> out.returned]
                        ELSE firstCall
        /\ UNCHANGED <<helperCall, exercise, connectedDevices>>

Analyze == calls = 0 /\ Call(pressedNotes) /\ UNCHANGED activeNotes

Next == Analyze

Spec == Init /\ [][Next]_vars

Done == calls > 0

-----------------------------------------------------------------------------
(* SessionSpec: one detector used over several calls, by the app as keys    *)
(* go down and up and by direct analyzeChord calls                          *)

\* the arguments of the direct calls: the lists of at most two of these names
SessionNotes == {"C", "G"}
SessionInputs == ListsOver(SessionNotes, 2)

\* the piano keys pressed and released
SessionKeys == {"C3", "C4"}

SessionInit == pressedNotes = <<>> /\ Fresh /\ helperCall = Null

\* a direct call of analyzeChord
DirectCall(notes) == calls < MaxCalls /\ Call(notes) /\ UNCHANGED activeNotes

\* Set.prototype.add and Set.prototype.delete on the insertion-ordered Set
SetAdd(set, x) == IF Includes(set, x) THEN set ELSE Append(set, x)
SetDelete(set, x) == LET Other(y) == y # x IN SelectSeq(set, Other)

\* updateChordDetection with noteArray = Array.from(activeNotes); the chord
\* display it then writes holds no state of its own
UpdateChordDetection(noteArray) ==
    IF Len(noteArray) >= 2
    THEN calls < MaxCalls /\ Call(noteArray)
    ELSE UNCHANGED <<pressedNotes, returned, currentChord, chordHistory, calls, firstCall,
                     helperCall, exercise, connectedDevices>>

\* handleNoteOn(note) in free-play mode with the scale lock off, as the app
\* is constructed (the lock and the training mode are not modelled)
HandleNoteOn(note) ==
    LET held == SetAdd(activeNotes, note)
    IN  activeNotes' = held /\ UpdateChordDetection(held)

HandleNoteOff(note) ==
    LET held == SetDelete(activeNotes, note)
    IN  activeNotes' = held /\ UpdateChordDetection(held)

ClearHistory ==
    /\ chordHistory # <<>>
    /\ chordHistory' = <<>>
    /\ UNCHANGED <<pressedNotes, returned, currentChord, activeNotes, calls, firstCall,
                   helperCall, exercise, connectedDevices>>

SessionNext ==
    \/ \E notes \in SessionInputs : DirectCall(notes)
    \/ \E note \in SessionKeys : HandleNoteOn(note)
    \/ \E note \in SessionKeys : HandleNoteOff(note)
    \/ ClearHistory

SessionSpec == SessionInit /\ [][SessionNext]_vars

-----------------------------------------------------------------------------
(* TheorySpec: one call of a MusicTheory function (or of the MIDI handler's  *)
(* midiToNoteName), for every argument                                       *)

MidiNumbers == (-MidiBelowZero)..MaxMidi
Octaves == (-1)..MaxOctave

\* the strings given as note names: the names of NOTES, flat spellings, lower
\* case, a piano key, a name of another convention, the empty string
NoteStrings == Range(NOTES) \cup {"Eb", "Bb", "Db", "c", "c#", "C4", "H", ""}

\* the keys of SCALES and one string that is no key
ScaleTypes == {SCALES[i].key : i \in 1..Len(SCALES)} \cup {"chromatic"}

TheoryInit ==
    /\ pressedNotes = <<>>
    /\ Fresh
    /\ \/ \E m \in MidiNumbers : helperCall = [op |-> "midiToNote", midiNumber |-> m]
       \/ \E m \in MidiNumbers : helperCall = [op |-> "midiToNoteName", midiNote |-> m]
       \/ \E note \in NoteStrings, octave \in Octaves :
             helperCall = [op |-> "noteToMidi", note |-> note, octave |-> octave]
       \/ \E semitones \in 0..MaxSemitones :
             helperCall = [op |-> "getIntervalName", semitones |-> semitones]
       \/ \E rootNote \in NoteStrings, scaleType \in ScaleTypes :
             helperCall = [op |-> "getScaleNotes", rootNote |-> rootNote,
                           scaleType |-> scaleType]

\* the call returns value; the functions called read and write no state
Respond(value) ==
    /\ calls = 0
    /\ returned' = value
    /\ calls' = 1
    /\ UNCHANGED <<pressedNotes, currentChord, chordHistory, activeNotes, firstCall,
                   helperCall, exercise, connectedDevices>>

CallMidiToNote ==
    helperCall.op = "midiToNote" /\ Respond(MidiToNote(helperCall.midiNumber))

CallMidiToNoteName ==
    helperCall.op = "midiToNoteName" /\ Respond(MidiToNoteName(helperCall.midiNote))

CallNoteToMidi ==
    helperCall.op = "noteToMidi" /\ Respond(NoteToMidi(helperCall.note, helperCall.octave))

CallGetIntervalName ==
    helperCall.op = "getIntervalName" /\ Respond(GetIntervalName(helperCall.semitones))

CallGetScaleNotes ==
    /\ helperCall.op = "getScaleNotes"
    /\ Respond(GetScaleNotes(helperCall.rootNote, helperCall.scaleType))

TheoryNext ==
    \/ CallMidiToNote
    \/ CallMidiToNoteName
    \/ CallNoteToMidi
    \/ CallGetIntervalName
    \/ CallGetScaleNotes

TheorySpec == TheoryInit /\ [][TheoryNext]_vars

\* the call op has returned
Returned(op) == calls > 0 /\ helperCall.op = op

-----------------------------------------------------------------------------
(* MatchSpec: one call of matchChordPattern, checkInversions or getInversion, *)
(* for every list of played intervals and every catalog definition           *)

\* the elements of a set of numbers, ascending
RECURSIVE Ascending(_)
Ascending(S) ==
    IF S = {} THEN <<>>
    ELSE LET least == CHOOSE x \in S : \A y \in S : x <= y
         IN  <<least>> \o Ascending(S \ {least})

\* the played intervals findChordsWithRoot computes for notes without
\* repetition: the root's 0 and up to MaxTones - 1 others of 1..11, ascending
IntervalLists ==
    {Ascending({0} \cup S) : S \in {T \in SUBSET (1..11) : Cardinality(T) < MaxTones}}

MatchInit ==
    /\ pressedNotes = <<>>
    /\ Fresh
    /\ \/ \E p \in IntervalLists, d \in CatalogIntervals :
             helperCall = [op |-> "matchChordPattern", playedIntervals |-> p,
                           chordIntervals |-> d]
       \/ \E p \in IntervalLists, d \in CatalogIntervals :
             helperCall = [op |-> "checkInversions", playedIntervals |-> p,
                           chordIntervals |-> d]
       \/ \E d \in CatalogIntervals : \E k \in 1..(Len(d) - 1) :
             helperCall = [op |-> "getInversion", intervals |-> d, inversion |-> k]

CallMatchChordPattern ==
    /\ helperCall.op = "matchChordPattern"
    /\ Respond(MatchChordPattern(helperCall.playedIntervals, helperCall.chordIntervals))

CallCheckInversions ==
    /\ helperCall.op = "checkInversions"
    /\ Respond(CheckInversions(helperCall.playedIntervals, helperCall.chordIntervals))

CallGetInversion ==
    /\ helperCall.op = "getInversion"
    /\ Respond(GetInversion(helperCall.intervals, helperCall.inversion))

MatchNext ==
    \/ CallMatchChordPattern
    \/ CallCheckInversions
    \/ CallGetInversion

MatchSpec == MatchInit /\ [][MatchNext]_vars

-----------------------------------------------------------------------------
(* HistorySpec: one detector over enough calls to fill the chord history     *)

\* the arguments of the calls: two chords, one of them also with a note
\* repeated, and a single note
HistoryInputs ==
    {<<"C", "E", "G">>, <<"C", "E", "G", "C">>, <<"A", "C", "E">>, <<"C">>}

HistoryInit == pressedNotes = <<>> /\ Fresh /\ helperCall = Null

HistoryCall(notes) == calls < MaxHistoryCalls /\ Call(notes) /\ UNCHANGED activeNotes

HistoryNext ==
    \/ \E notes \in HistoryInputs : HistoryCall(notes)
    \/ ClearHistory

HistorySpec == HistoryInit /\ [][HistoryNext]_vars

-----------------------------------------------------------------------------
(* ExerciseSpec: one exercise engine, exercises started and answers given    *)

\* the types asked for: the registered ones, none, and one never registered
RequestedTypes == Range(ExerciseTypes) \cup {None, "rhythm-practice"}

ExerciseInit ==
    /\ pressedNotes = <<>>
    /\ returned = Null
    /\ currentChord = Null
    /\ chordHistory = <<>>
    /\ activeNotes = <<>>
    /\ calls = 0
    /\ firstCall = Null
    /\ helperCall = Null
    /\ connectedDevices = <<>>
    /\ \E level \in 1..Len(Curriculum) : exercise = NewExerciseEngine(level)

ExerciseStep(out) ==
    /\ exercise' = out.engine
    /\ returned' = out.returned
    /\ UNCHANGED <<pressedNotes, currentChord, chordHistory, activeNotes, calls, firstCall,
                   helperCall, connectedDevices>>

CallStartExercise ==
    \E exerciseType \in RequestedTypes :
        \E pick \in 1..Len(Curriculum[exercise.currentLevel]) :
            ExerciseStep(StartExercise(exercise, exerciseType, pick))

CallSubmitAnswer ==
    /\ exercise.sessionStats.totalAttempts < MaxAnswers
    /\ \E isCorrect \in BOOLEAN : ExerciseStep(SubmitAnswer(exercise, isCorrect))

ExerciseNext ==
    \/ CallStartExercise
    \/ CallSubmitAnswer

ExerciseSpec == ExerciseInit /\ [][ExerciseNext]_vars

-----------------------------------------------------------------------------
(* MidiSpec: ports connect and disconnect, devices are activated             *)

Ports == {Port(i) : i \in 1..MaxPorts}

\* the ids handed to activateDevice and setActiveDevice: those of the ports,
\* connected or not, and the empty value of the device list
DeviceIds == {port.id : port \in Ports} \cup {""}

MidiInit == pressedNotes = <<>> /\ Fresh /\ helperCall = Null

MidiStep(devices, value) ==
    /\ connectedDevices' = devices
    /\ returned' = value
    /\ UNCHANGED <<pressedNotes, currentChord, chordHistory, activeNotes, calls, firstCall,
                   helperCall, exercise>>

CallOnStateChange ==
    \E port \in Ports, type \in {"input", "output"}, state \in {"connected", "disconnected"} :
        MidiStep(OnStateChange(connectedDevices, port, type, state), returned)

CallActivateDevice ==
    \E deviceId \in DeviceIds :
        \E out \in {ActivateDevice(connectedDevices, deviceId)} :
            MidiStep(out.devices, out.returned)

CallDeactivateAllDevices ==
    MidiStep(DeactivateAllDevices(connectedDevices), returned)

CallSetActiveDevice ==
    \E deviceId \in DeviceIds :
        MidiStep(SetActiveDevice(connectedDevices, deviceId), returned)

MidiNext ==
    \/ CallOnStateChange
    \/ CallActivateDevice
    \/ CallDeactivateAllDevices
    \/ CallSetActiveDevice

MidiSpec == MidiInit /\ [][MidiNext]_vars

-----------------------------------------------------------------------------
(* Properties *)

\* NOTES[(r + semitones) % 12], r counted from 0
NoteAt(r, semitones) == NOTES[((r + semitones) % 12) + 1]

\* chord is the catalog chord root + quality, matched with this confidence and inversion
IsChord(chord, root, quality, confidence, inversion) ==
    /\ chord # Null
    /\ chord.root = root
    /\ chord.fullName = root \o " " \o quality
    /\ chord.confidence = confidence
    /\ chord.inversion = inversion

\* what analyzeChord returns for notes (its result does not read the detector)
Returns(notes) == AnalyzeChord(notes).returned

\* root, chord type, confidence and inversion of a result
Summary(chord) ==
    IF chord = Null THEN <<"none">>
    ELSE <<chord.root, chord.category, chord.type, chord.confidence, chord.inversion>>

\* the same, with the root as a pitch class
Outcome(chord) ==
    IF chord = Null THEN <<"none">>
    ELSE <<NoteClass(chord.root), chord.category, chord.type, chord.confidence, chord.inversion>>

\* the keys of the major triad on root r, in the octave above middle C
MajorTriadKeys(r) == <<FullNote(NoteAt(r, 0), 4), FullNote(NoteAt(r, 4), 4), FullNote(NoteAt(r, 7), 4)>>

\* C1: when the keys of a major triad are held (octave-tagged names, on any of
\* the 12 roots; C4, E4, G4 for C), analyzeChord returns root = the triad's
\* root, quality Major, confidence 1.0 and inversion 0.
C1_HeldMajorTriadIsDetected ==
    \A r \in 0..11 :
        (Done /\ pressedNotes = MajorTriadKeys(r))
            => IsChord(returned, NoteAt(r, 0), "Major", Confidence(1, 1), 0)

\* the lists that hold the elements of notes in some order
Reorderings(notes) ==
    {[i \in 1..Len(notes) |-> notes[f[i]]] : f \in Permutations(1..Len(notes))}

\* C2: the result depends only on the set of played notes: every reordering
\* of the input list gives the same root, chord type, confidence and inversion.
C2_OrderIndependent ==
    (Done /\ pressedNotes \in BareInputs)
        => \A other \in Reorderings(pressedNotes) : Summary(Returns(other)) = Summary(returned)

\* the order of the claim: triads < sevenths < sus < extended
CategoryRank(category) ==
    CASE category = "triads" -> 1
      [] category = "sevenths" -> 2
      [] category = "sus" -> 3
      [] category = "extended" -> 4

\* a is strictly better than b: higher confidence, then lower inversion, then
\* simpler category, then fewer extra notes, then fewer missing notes
StrictlyBetter(a, b) ==
    \/ a.confidence > b.confidence
    \/ /\ a.confidence = b.confidence
       /\ \/ a.inversion < b.inversion
          \/ /\ a.inversion = b.inversion
             /\ \/ CategoryRank(a.category) < CategoryRank(b.category)
                \/ /\ CategoryRank(a.category) = CategoryRank(b.category)
                   /\ \/ Len(a.extraNotes) < Len(b.extraNotes)
                      \/ /\ Len(a.extraNotes) = Len(b.extraNotes)
                         /\ Len(a.missingNotes) < Len(b.missingNotes)

\* the candidates of the latest call, in the order they are collected: every
\* played note as root, every definition
Candidates == CollectResults(UniqueNotes(pressedNotes))

\* C3: when at least one candidate exists, the returned chord is one of the
\* candidates and no candidate is strictly better than it.
C3_ReturnedIsBest ==
    (Done /\ Len(UniqueNotes(pressedNotes)) >= 2)
        => LET candidates == Candidates
           IN  candidates # <<>>
                  => /\ \E i \in 1..Len(candidates) : candidates[i] = returned
                     /\ \A i \in 1..Len(candidates) : ~StrictlyBetter(candidates[i], returned)

\* a call where the category rule decides: a sus candidate ties with the
\* returned triad on confidence and inversion
C3_Witness ==
    /\ Done
    /\ pressedNotes = <<"C", "D", "G">>
    /\ returned.category = "triads"
    /\ \E c \in Range(Candidates) :
          /\ c.category = "sus"
          /\ c.confidence = returned.confidence
          /\ c.inversion = returned.inversion

\* C4: for the first inversion of C major, E4 G4 C5 (pitch classes E, G, C,
\* E first), analyzeChord returns root C, Major, inversion 1, confidence 0.85.
C4_FirstInversionIsReported ==
    (Done /\ pressedNotes \in {<<"E4", "G4", "C5">>, <<"E", "G", "C">>})
        => IsChord(returned, "C", "Major", Confidence(17, 20), 1)

\* notes.map(note => note.replace(/\d+/, ''))
RECURSIVE BareNames(_)
BareNames(notes) ==
    IF notes = <<>> THEN <<>> ELSE <<NoteClass(Head(notes))>> \o BareNames(Tail(notes))

\* C5: octave is discarded: octave-tagged notes give the outcome (none, or root
\* pitch class, chord type, confidence, inversion) of their bare pitch-class
\* names with duplicates removed; C3 and C4 together give none.
C5_OctaveIsDiscarded ==
    (Done /\ pressedNotes \in KeyInputs)
        => Outcome(returned) = Outcome(Returns(UniqueNotes(BareNames(pressedNotes))))

\* C6: analyzeChord returns null for the empty list, a single note and a list
\* with one distinct note, and leaves currentChord null.
C6_TooFewNotesGiveNone ==
    (Done /\ Cardinality(Range(pressedNotes)) < 2)
        => returned = Null /\ currentChord = Null

\* a chord was current, then one note given twice was analyzed
C6_Witness ==
    /\ calls >= 2
    /\ chordHistory # <<>>
    /\ pressedNotes = <<"C", "C">>
    /\ currentChord = Null

\* C7: exactly r, r+3, r+7 give root r, Minor, confidence 1.0, inversion 0;
\* r, r+4, r+7 give root r, Major, confidence 1.0 (inversion 0).
C7_MinorIsNotMajor ==
    \A r \in 0..11 :
        /\ (Done /\ pressedNotes \in BareInputs
                 /\ Range(pressedNotes) = {NoteAt(r, 0), NoteAt(r, 3), NoteAt(r, 7)})
              => /\ IsChord(returned, NoteAt(r, 0), "Minor", Confidence(1, 1), 0)
                 /\ returned.category = "triads" /\ returned.type = "m"
        /\ (Done /\ pressedNotes \in BareInputs
                 /\ Range(pressedNotes) = {NoteAt(r, 0), NoteAt(r, 4), NoteAt(r, 7)})
              => /\ IsChord(returned, NoteAt(r, 0), "Major", Confidence(1, 1), 0)
                 /\ returned.category = "triads" /\ returned.type = ""

C7_Witness ==
    /\ Done
    /\ pressedNotes = <<"C", "D#", "G">>
    /\ returned.fullName = "C Minor"
    /\ returned.intervals = <<0, 3, 7>>

\* C8: a root and its fifth, root first, give a result with confidence below
\* 1.0 whose quality is Major or Minor, the same one (Major) each time.
C8_BareFifthIsMajor ==
    \A r \in 0..11 :
        (Done /\ pressedNotes = <<NoteAt(r, 0), NoteAt(r, 7)>>)
            => /\ returned # Null
               /\ returned.confidence < Confidence(1, 1)
               /\ returned.fullName \in {returned.root \o " Major", returned.root \o " Minor"}
               /\ returned.category = "triads" /\ returned.type = ""

C8_Witness ==
    /\ Done
    /\ pressedNotes = <<"C", "G">>
    /\ returned.fullName = "C Major"
    /\ returned.confidence = Confidence(2, 3)
    /\ returned.missingNotes = <<4>>

\* C9: a call with the argument of the first call returns the chord description
\* the first call returned, whatever calls were made in between and whatever
\* they left in currentChord and chordHistory.
C9_SameInputSameOutput ==
    (Done /\ pressedNotes = firstCall.arg) => returned = firstCall.ret

\* the first argument analyzed again after another chord was detected
C9_Witness ==
    /\ calls >= 3
    /\ pressedNotes = firstCall.arg
    /\ returned # Null
    /\ Len(chordHistory) >= 3
    /\ chordHistory[Len(chordHistory) - 1].name # returned.name

\* C10: at least 2 distinct valid notes always give a chord description, a
\* catalog match or the unknown-chord fallback, never none.
C10_TwoNotesGiveAChord ==
    (Done /\ pressedNotes \in BareInputs /\ Cardinality(Range(pressedNotes)) >= 2)
        => /\ returned # Null
           /\ returned = currentChord
           /\ returned.root \in Range(pressedNotes)
           /\ returned.confidence \in 1..Confidence(1, 1)
           /\ \/ returned.type = "unknown" /\ returned.confidence = Confidence(1, 2)
              \/ \E i \in 1..Len(CatalogEntries) :
                    /\ returned.category = CatalogEntries[i].category
                    /\ returned.type = CatalogEntries[i].chordType

\* a dissonant cluster was analyzed
C10_Witness ==
    /\ Done
    /\ pressedNotes = <<"C", "C#", "D">>
    /\ returned # Null

\* the octave a piano key names
KeyOctave(key) ==
    CHOOSE o \in 0..9 : \E i \in 1..Len(NOTES) : FullNote(NOTES[i], o) = key

\* the pitch of a piano key, in semitones
KeyPitch(key) == (KeyOctave(key) + 1) * 12 + IndexOf(NoteClass(key))

\* the lowest of the keys of a list
LowestKey(keys) ==
    CHOOSE k \in Range(keys) : \A other \in Range(keys) : KeyPitch(k) <= KeyPitch(other)

\* the quality guessed from the intervals of the keys above root
GuessedQuality(keys, root) ==
    LET above == {(KeyPitch(keys[i]) - KeyPitch(root)) % 12 : i \in 1..Len(keys)}
    IN  IF 4 \in above THEN "major" ELSE IF 3 \in above THEN "minor" ELSE "suspended"

\* C11: when no root produces a catalog candidate, analyzeChord returns an
\* unknown-chord summary whose root is the lowest played note (not merely the
\* first listed), with confidence 0.5, inversion 0 and a quality guess of
\* major if interval 4 from that root is present, else minor if interval 3
\* is, else suspended.
C11_UnknownRootIsLowest ==
    (Done /\ pressedNotes \in KeyInputs /\ Len(pressedNotes) >= 2 /\ Candidates = <<>>)
        => LET lowest == LowestKey(pressedNotes)
           IN  /\ returned # Null
               /\ returned.type = "unknown"
               /\ returned.root \in {lowest, NoteClass(lowest)}
               /\ returned.confidence = Confidence(1, 2)
               /\ returned.inversion = 0
               /\ returned.analysis.quality = GuessedQuality(pressedNotes, lowest)

\* the 12 canonical sharp-spelled names
CanonicalNames == {"C", "C#", "D", "D#", "E", "F", "F#", "G", "G#", "A", "A#", "B"}

\* the pitch class of a canonical name
PitchClass(name) ==
    CASE name = "C" -> 0 [] name = "C#" -> 1 [] name = "D" -> 2 [] name = "D#" -> 3
      [] name = "E" -> 4 [] name = "F" -> 5 [] name = "F#" -> 6 [] name = "G" -> 7
      [] name = "G#" -> 8 [] name = "A" -> 9 [] name = "A#" -> 10 [] name = "B" -> 11

\* C12: note-to-MIDI conversion is a bijection: noteToMidi(midiToNote(m)) = m
\* for every MIDI number m from 0 to MaxMidi, and for every canonical name n
\* and octave o from -1 to MaxOctave noteToMidi(n, o) = (o + 1) * 12 +
\* pitchClass(n) and midiToNote gives back n and o.
C12_MidiRoundTrip ==
    /\ (Returned("midiToNote") /\ helperCall.midiNumber \in 0..MaxMidi)
          => NoteToMidi(returned.note, returned.octave) = Number(helperCall.midiNumber)
    /\ (Returned("noteToMidi") /\ helperCall.note \in CanonicalNames)
          => /\ returned = Number((helperCall.octave + 1) * 12 + PitchClass(helperCall.note))
             /\ MidiToNote(returned.number).note = helperCall.note
             /\ MidiToNote(returned.number).octave = helperCall.octave

\* middle C both ways
C12_Witness ==
    \/ /\ Returned("midiToNote")
       /\ helperCall.midiNumber = 60
       /\ returned.fullName = "C4"
    \/ /\ Returned("noteToMidi")
       /\ helperCall.note = "C" /\ helperCall.octave = 4
       /\ returned = Number(60)

\* C13: midiToNote uses a Euclidean modulo: for every MIDI number, negative
\* ones included, the note name returned is one of the 12 canonical names
\* (pitch class in 0..11) and the octave is floor(midi / 12) - 1; the MIDI
\* handler's midiToNoteName returns that name followed by that octave.
C13_EuclideanModulo ==
    /\ Returned("midiToNote")
          => /\ returned.note \in CanonicalNames
             /\ PitchClass(returned.note) = helperCall.midiNumber % 12
             /\ returned.octave = (helperCall.midiNumber \div 12) - 1
    /\ Returned("midiToNoteName")
          => \E name \in CanonicalNames :
                /\ PitchClass(name) = helperCall.midiNote % 12
                /\ returned = Concat(name, (helperCall.midiNote \div 12) - 1)

\* the table of getIntervalName
IntervalTable ==
    <<"Unison", "Minor 2nd", "Major 2nd", "Minor 3rd", "Major 3rd", "Perfect 4th",
      "Tritone", "Perfect 5th", "Minor 6th", "Major 6th", "Minor 7th", "Major 7th",
      "Octave">>

\* C14: getIntervalName(12) returns Octave, distinct from the Unison of
\* getIntervalName(0); for every s in 0..12 the name is the table entry of s.
C14_OctaveIsNamed ==
    (Returned("getIntervalName") /\ helperCall.semitones \in 0..12)
        => returned = IntervalTable[helperCall.semitones + 1]

\* C15: noteToMidi yields no MIDI number (null) exactly when the name is not
\* one of the 12 canonical sharp spellings: flat spellings, lower case and
\* octave-tagged names included; it yields a number for each canonical name.
C15_OnlyCanonicalNamesParse ==
    Returned("noteToMidi")
        => /\ (helperCall.note \notin CanonicalNames) <=> (returned = Null)
           /\ (helperCall.note \in CanonicalNames) => returned.number \in Int

\* a flat spelling was refused
C15_Witness ==
    /\ Returned("noteToMidi")
    /\ helperCall.note = "Eb"
    /\ returned = Null

\* C16: getScaleNotes(root, scale) is, for each of the 12 roots and every
\* scale definition, the sequence whose i-th element is the pitch class
\* (root + intervals[i]) mod 12: as long as the intervals, the root first;
\* for C major it is C, D, E, F, G, A, B.
C16_ScaleFollowsOffsets ==
    (Returned("getScaleNotes") /\ helperCall.rootNote \in CanonicalNames
                               /\ HasScale(helperCall.scaleType))
        => LET offsets == ScaleOf(helperCall.scaleType).intervals
           IN  /\ Len(returned) = Len(offsets)
               /\ \A i \in 1..Len(offsets) :
                     /\ returned[i] \in CanonicalNames
                     /\ PitchClass(returned[i])
                           = (PitchClass(helperCall.rootNote) + offsets[i]) % 12
               /\ returned[1] = helperCall.rootNote
               /\ (helperCall.rootNote = "C" /\ helperCall.scaleType = "major")
                     => returned = <<"C", "D", "E", "F", "G", "A", "B">>

\* a scale that wraps past B
C16_Witness ==
    /\ Returned("getScaleNotes")
    /\ helperCall.rootNote = "A" /\ helperCall.scaleType = "major"
    /\ returned = <<"A", "B", "C#", "D", "E", "F#", "G#">>

\* the names of the pitch classes of a chord: root r, then r plus each interval
RECURSIVE ChordNotes(_, _)
ChordNotes(r, intervals) ==
    IF intervals = <<>> THEN <<>>
    ELSE <<NoteAt(r, Head(intervals))>> \o ChordNotes(r, Tail(intervals))

\* C17: exact match holds for every catalog entry: for every definition d of
\* the four categories (9, maj9, m9, 11, 13 and 9sus4 included) and every
\* root r, when the played pitch classes are exactly r plus each interval of
\* d, matchChordPattern for root r and d reports a match with confidence 1.0
\* and inversion 0.
C17_ExactMatchForEveryEntry ==
    Returned("matchChordPattern")
        => \A i \in 1..Len(CatalogEntries) :
              LET d == CatalogEntries[i].chordDef.intervals
              IN  (helperCall.chordIntervals = d)
                    => \A r \in 0..11 :
                          (helperCall.playedIntervals = IntervalsFrom(ChordNotes(r, d), r))
                             => /\ returned.isMatch
                                /\ returned.confidence = Confidence(1, 1)
                                /\ returned.inversion = 0

\* the intervals of d measured from its k-th tone (the tone that k rotations
\* leave lowest), ascending
InversionFromBass(d, k) == Ascending({(d[i] - d[k + 1]) % 12 : i \in 1..Len(d)})

\* C18: getInversion(d, k), for a definition d and 1 <= k < |d|, returns the
\* chord's intervals measured from its k-th tone as the new lowest note,
\* sorted: [0,3,8] for the major triad and k = 1, [0,5,9] for k = 2.
C18_InversionFromNewBass ==
    Returned("getInversion")
        => /\ returned = InversionFromBass(helperCall.intervals, helperCall.inversion)
           /\ (helperCall.intervals = <<0, 4, 7>> /\ helperCall.inversion = 1)
                 => returned = <<0, 3, 8>>
           /\ (helperCall.intervals = <<0, 4, 7>> /\ helperCall.inversion = 2)
                 => returned = <<0, 5, 9>>

\* the set getInversion(d, k) returns equals the played intervals
RotatedEquals(p, d, k) == Range(GetInversion(d, k)) = Range(p)

\* it is contained in them, with at most 2 played intervals beside it
RotatedWithin(p, d, k) ==
    /\ Range(GetInversion(d, k)) \subseteq Range(p)
    /\ Cardinality(Range(p) \ Range(GetInversion(d, k))) <= 2

C20_SupersetMatch ==
    Returned("matchChordPattern")
        => LET p == helperCall.playedIntervals
               d == helperCall.chordIntervals
           IN  (Range(d) \subseteq Range(p) /\ p # d)
                  => /\ returned.isMatch
                     /\ returned.confidence = Confidence(9, 10)
                     /\ returned.inversion = 0
                     /\ returned.missingNotes = <<>>
                     /\ returned.extraNotes = Ascending(Range(p) \ Range(d))

\* a dominant seventh chord against the major triad
C20_Witness ==
    /\ Returned("matchChordPattern")
    /\ helperCall.chordIntervals = <<0, 4, 7>>
    /\ helperCall.playedIntervals = <<0, 4, 7, 10>>
    /\ returned.extraNotes = <<10>>

\* C21: partial match: when d is neither an exact, a superset nor an
\* inversion match, matchChordPattern reports a match exactly when at least
\* min(2, |d| - 1) of d's intervals are played; the confidence is then
\* matchedCount / |d|, the missing notes are the intervals of d not played and
\* the extra notes the played intervals not in d; otherwise no match is recorded.
C21_PartialMatch ==
    Returned("matchChordPattern")
        => LET p == helperCall.playedIntervals
               d == helperCall.chordIntervals
               inverted == \E k \in 1..(Len(d) - 1) :
                              RotatedEquals(p, d, k) \/ RotatedWithin(p, d, k)
               matchedCount == Cardinality(Range(d) \cap Range(p))
               least == IF Len(d) - 1 < 2 THEN Len(d) - 1 ELSE 2
           IN  (p # d /\ ~(Range(d) \subseteq Range(p)) /\ ~inverted)
                  => IF matchedCount >= least
                     THEN /\ returned.isMatch
                          /\ returned.confidence = Confidence(matchedCount, Len(d))
                          /\ returned.inversion = 0
                          /\ returned.missingNotes = Ascending(Range(d) \ Range(p))
                          /\ returned.extraNotes = Ascending(Range(p) \ Range(d))
                     ELSE /\ ~returned.isMatch
                          /\ returned = NoMatch

\* root and fifth against the major triad
C21_Witness ==
    /\ Returned("matchChordPattern")
    /\ helperCall.chordIntervals = <<0, 4, 7>>
    /\ helperCall.playedIntervals = <<0, 7>>
    /\ returned.isMatch
    /\ returned.confidence = Confidence(2, 3)
    /\ returned.missingNotes = <<4>>

\* the intervals of the catalog definition a chord description names
DefinitionOf(chord) ==
    LET i == CHOOSE i \in 1..Len(CatalogEntries) :
                /\ CatalogEntries[i].category = chord.category
                /\ CatalogEntries[i].chordType = chord.type
    IN  CatalogEntries[i].chordDef.intervals

\* C22: every chord description analyzeChord returns, on any input, has a
\* confidence greater than 0 and at most 1; a confidence of exactly 1.0 occurs
\* only when the played intervals from the returned root equal the intervals
\* of the definition.
C22_ConfidenceInRange ==
    (Done /\ returned # Null)
        => /\ returned.confidence > 0
           /\ returned.confidence <= Confidence(1, 1)
           /\ (returned.confidence = Confidence(1, 1))
                 => /\ returned.type # "unknown"
                    /\ returned.intervals = DefinitionOf(returned)
                    /\ returned.intervals
                          = IntervalsFrom(UniqueNotes(pressedNotes), IndexOf(returned.root))

\* an exact match on a root other than C
C22_Witness ==
    /\ Done
    /\ pressedNotes = <<"D", "F#", "A">>
    /\ returned.confidence = Confidence(1, 1)
    /\ returned.intervals = <<0, 4, 7>>

\* C23: every catalog chord definition has an interval list that is strictly
\* ascending, each value a pitch-class offset in 0..11, starting with 0.
C23_DefinitionsArePitchClasses ==
    (calls > 0 /\ helperCall.op \in {"matchChordPattern", "checkInversions"})
        => LET d == helperCall.chordIntervals
           IN  /\ d[1] = 0
               /\ \A i \in 1..Len(d) : d[i] \in 0..11
               /\ \A i \in 1..(Len(d) - 1) : d[i] < d[i + 1]

\* C24: for at least 2 distinct valid bare names, the returned chord's root is
\* one of the played notes and its intervals are the played notes' offsets from
\* that root: strictly ascending, each in 0..11, first 0, one per distinct note.
C24_IntervalsAreOffsetsFromRoot ==
    (Done /\ pressedNotes \in BareInputs /\ Cardinality(Range(pressedNotes)) >= 2)
        => LET played == Range(pressedNotes)
               intervals == returned.intervals
           IN  /\ returned.root \in played
               /\ Len(intervals) = Cardinality(played)
               /\ intervals[1] = 0
               /\ \A i \in 1..Len(intervals) : intervals[i] \in 0..11
               /\ \A i \in 1..(Len(intervals) - 1) : intervals[i] < intervals[i + 1]
               /\ Range(intervals)
                     = {(IndexOf(n) - IndexOf(returned.root)) % 12 : n \in played}

\* the root is not the first note given and the offsets wrap below the root
C24_Witness ==
    /\ Done
    /\ pressedNotes = <<"G", "C", "E">>
    /\ returned.root = "C"
    /\ returned.intervals = <<0, 4, 7>>

\* every set of at least 2 of the 12 pitch classes, as indices into NOTES
PitchClassSets == {S \in SUBSET (0..11) : Cardinality(S) >= 2}

\* some played note, taken as root, matches some catalog definition
HasCandidate(S) ==
    \E r \in S : \E i \in 1..Len(CatalogEntries) :
        MatchChordPattern(Ascending({(n - r) % 12 : n \in S}),
                          CatalogEntries[i].chordDef.intervals).isMatch

\* C25: every set of at least 2 distinct valid pitch classes has a catalog
\* candidate on some root, so for valid bare names the unknown-chord fallback
\* is never taken and analyzeChord never returns a chord of type "unknown".
\* The first conjunct is about the call made; the second, about all subsets of
\* the 12 names, does not depend on the call and is stated at one of them.
C25_NeverUnknownForBareNames ==
    /\ (Done /\ pressedNotes \in BareInputs /\ Cardinality(Range(pressedNotes)) >= 2)
           => /\ Candidates # <<>>
              /\ returned # Null
              /\ returned.type # "unknown"
    /\ (Done /\ pressedNotes = <<"C", "C#">>)
           => \A S \in PitchClassSets : HasCandidate(S)

\* two notes a semitone apart: no definition holds the offset 1, and the
\* candidate comes from the upper note as root
C25_Witness ==
    /\ Done
    /\ pressedNotes = <<"C", "C#">>
    /\ Candidates # <<>>
    /\ returned.root = "C#"
    /\ returned.type # "unknown"

C27_AttemptsWithinLimit ==
    /\ exercise.attempts <= maxAttempts
    /\ "attemptsLeft" \in DOMAIN returned => returned.attemptsLeft >= 0

\* an analyzeChord call is made in this step and returns a chord
ChordDetected == calls' = calls + 1 /\ returned' # Null

\* C28: after any sequence of analyzeChord and clearHistory calls the chord
\* history holds at most maxHistoryLength entries; when a chord other than the
\* latest is detected with the history full, the oldest entry is dropped, the
\* others keep their order and the new chord comes last.
C28_HistoryIsBounded ==
    /\ [](Len(chordHistory) <= maxHistoryLength)
    /\ [][(/\ ChordDetected
            /\ Len(chordHistory) = maxHistoryLength
            /\ returned'.name # chordHistory[Len(chordHistory)].name)
              => chordHistory' = Append(Tail(chordHistory), returned')]_vars

\* a full history after an 11th chord: the chord first detected is gone and
\* the one detected second is the oldest entry
C28_Witness ==
    /\ calls = maxHistoryLength + 1
    /\ Len(chordHistory) = maxHistoryLength
    /\ firstCall.ret # Null
    /\ returned # Null
    /\ chordHistory[maxHistoryLength] = returned
    /\ chordHistory[1].name # firstCall.ret.name

\* C29: after any sequence of analyzeChord calls no two adjacent entries of
\* the chord history have the same chord name: detecting the chord the history
\* ends with leaves the history unchanged.
C29_NoAdjacentRepeats ==
    /\ [](\A i \in 1..(Len(chordHistory) - 1) :
              chordHistory[i].name # chordHistory[i + 1].name)
    /\ [][(/\ ChordDetected
            /\ Len(chordHistory) > 0
            /\ returned'.name = chordHistory[Len(chordHistory)].name)
              => chordHistory' = chordHistory]_vars

\* the chord the history ends with was detected again, from other notes
C29_Witness ==
    /\ calls = 3
    /\ pressedNotes = <<"C", "E", "G", "C">>
    /\ returned # Null
    /\ Len(chordHistory) = 2
    /\ chordHistory[2].name = returned.name
    /\ chordHistory[1].name # returned.name

\* the positions of the connected devices marked active
ActiveDevices == {i \in 1..Len(connectedDevices) : connectedDevices[i].isActive}

\* the device of this id in a list of devices
DeviceOf(devices, id) == devices[CHOOSE i \in 1..Len(devices) : devices[i].id = id]

\* C30: after any sequence of device connect, device disconnect,
\* activateDevice, setActiveDevice and deactivateAllDevices events, at most one
\* connected device is marked active, and a device that was not connected and
\* now is starts inactive.
C30_AtMostOneActiveDevice ==
    /\ [](Cardinality(ActiveDevices) <= 1)
    /\ [][\A port \in Ports :
            (~Has(connectedDevices, port.id) /\ Has(connectedDevices', port.id))
                => ~DeviceOf(connectedDevices', port.id).isActive]_vars

\* three devices connected, activateDevice has returned true, and the first
\* device alone is active
C30_Witness ==
    /\ Len(connectedDevices) = 3
    /\ ActiveDevices = {1}
    /\ returned = Boolean(TRUE)

====
